---- MODULE Spec2Model ----
(***************************************************************************)
(* Model of the WhisperX transcription service (app.py, wsgi.py,           *)
(* gunicorn_config.py): startup model loading, the three HTTP handlers and *)
(* the per-request pipeline transcribe -> align -> diarize -> fusion.      *)
(* The inference engines (whisperx.*, pyannote) are opaque: each call      *)
(* either returns or raises, chosen nondeterministically.                  *)
(***************************************************************************)
EXTENDS Integers, Sequences, FiniteSets, TLC

\* ---------------------------------------------------------------- bounds
MaxReqs == 2                    \* request slots that may be open at once
Reqs == 1..MaxReqs
Segs == {"s1"}                  \* segment lists the transcription engine returns

\* ------------------------------------------------------- program constants
workers == 1                    \* gunicorn_config.py: workers = 1

VARIABLES
    mode,             \* how the process was started
    lm_pc,            \* position inside load_models / startup
    load_failed,      \* which loader raised during load_models
    hf_token,         \* HF_TOKEN / HUGGINGFACE_TOKEN present in the environment
    whisperx_model,   \* app.py globals
    align_model,
    align_metadata,
    diarize_pipeline,
    pc,               \* per request: position inside its handler
    enable_diarization, \* per request: parsed 'diarization' form field
    result,           \* per request: local variable result
    log,              \* per request: engine calls made, in order
    err,              \* per request: stage whose exception is propagating
    resp,             \* per request: response built / delivered
    tmp,              \* per request: its temporary file exists on disk
    health_resp,      \* last body returned by GET /health
    info_resp         \* last body returned by GET /models/info

handles == <<whisperx_model, align_model, align_metadata, diarize_pipeline>>
startup == <<mode, lm_pc, load_failed, hf_token>>
reqvars == <<pc, enable_diarization, result, log, err, resp, tmp>>
probes  == <<health_resp, info_resp>>
vars    == <<mode, lm_pc, load_failed, hf_token, whisperx_model, align_model,
             align_metadata, diarize_pipeline, pc, enable_diarization, result,
             log, err, resp, tmp, health_resp, info_resp>>

Modes == {"gunicorn", "wsgi_main", "app_main"}

\* Python object tests on a handle
IsNotNone(h) == h # "None"
Truthy(h) == h # "None"

NoResult == [segments |-> "none", aligned |-> FALSE, speakers |-> FALSE]
NoResp == [status |-> 0, success |-> FALSE, transcription |-> NoResult,
           diarization_enabled |-> FALSE, error |-> "none"]
NoHealth == [served |-> FALSE, whisperx_loaded |-> FALSE,
             align_loaded |-> FALSE, diarize_loaded |-> FALSE]
NoInfo == [served |-> FALSE, whisperx_model |-> "None",
           align_model_loaded |-> FALSE, diarization_available |-> FALSE]

Init ==
    /\ mode = "off"
    /\ lm_pc = "off"
    /\ load_failed = "none"
    /\ hf_token \in BOOLEAN
    /\ whisperx_model = "None"
    /\ align_model = "None"
    /\ align_metadata = "None"
    /\ diarize_pipeline = "None"
    /\ pc = [r \in Reqs |-> "idle"]
    /\ enable_diarization = [r \in Reqs |-> FALSE]
    /\ result = [r \in Reqs |-> NoResult]
    /\ log = [r \in Reqs |-> << >>]
    /\ err = [r \in Reqs |-> "none"]
    /\ resp = [r \in Reqs |-> NoResp]
    /\ tmp = [r \in Reqs |-> FALSE]
    /\ health_resp = NoHealth
    /\ info_resp = NoInfo

\* ------------------------------------------------------------- startup
\* gunicorn imports wsgi (else branch), `python wsgi.py` and `python app.py`
\* run the __main__ blocks; all three call load_models() first.
Start(m) ==
    /\ mode = "off"
    /\ mode' = m
    /\ lm_pc' = "whisperx"
    /\ UNCHANGED <<load_failed, hf_token, handles, reqvars, probes>>

\* load_models: whisperx.load_model; any exception is logged and re-raised
LoadWhisperx(ok) ==
    /\ lm_pc = "whisperx"
    /\ IF ok
       THEN /\ whisperx_model' = "loaded"
            /\ lm_pc' = "align"
            /\ UNCHANGED load_failed
       ELSE /\ load_failed' = "whisperx"
            /\ lm_pc' = "raised"
            /\ UNCHANGED whisperx_model
    /\ UNCHANGED <<mode, hf_token, align_model, align_metadata,
                   diarize_pipeline, reqvars, probes>>

\* load_models: whisperx.load_align_model, inside the same try block
LoadAlign(ok) ==
    /\ lm_pc = "align"
    /\ IF ok
       THEN /\ align_model' = "loaded"
            /\ align_metadata' = "loaded"
            /\ lm_pc' = "diarize"
            /\ UNCHANGED load_failed
       ELSE /\ load_failed' = "align"
            /\ lm_pc' = "raised"
            /\ UNCHANGED <<align_model, align_metadata>>
    /\ UNCHANGED <<mode, hf_token, whisperx_model, diarize_pipeline,
                   reqvars, probes>>

\* load_models: Pipeline.from_pretrained when a token is configured
LoadDiarize(ok) ==
    /\ lm_pc = "diarize"
    /\ IF hf_token
       THEN IF ok
            THEN /\ diarize_pipeline' = "loaded"
                 /\ lm_pc' = "done"
                 /\ UNCHANGED load_failed
            ELSE /\ load_failed' = "diarize"
                 /\ lm_pc' = "raised"
                 /\ UNCHANGED diarize_pipeline
       ELSE /\ ok
            /\ lm_pc' = "done"
            /\ UNCHANGED <<load_failed, diarize_pipeline>>
    /\ UNCHANGED <<mode, hf_token, whisperx_model, align_model,
                   align_metadata, reqvars, probes>>

\* The server accepts requests only once load_models() has returned
Serving == lm_pc = "done"

\* Handlers that may run at the same time: one per gunicorn sync worker;
\* app.run() serves every request on a thread of its own.
Concurrency(m) == IF m = "gunicorn" THEN workers ELSE MaxReqs

Busy == {r \in Reqs : pc[r] \notin {"idle", "done"}}

CanAccept == Serving /\ Cardinality(Busy) < Concurrency(mode)


\* ------------------------------------------------------ POST /transcribe
ErrorResponse(code, e) ==
    [status |-> code, success |-> FALSE, transcription |-> NoResult,
     diarization_enabled |-> FALSE, error |-> e]

\* the jsonify(...) body of the success return
SuccessResponse_echo(r) ==
    [status |-> 200, success |-> TRUE, transcription |-> result[r],
     diarization_enabled |-> enable_diarization[r],
     error |-> "none"]

SuccessResponse(r) ==
    [status |-> 200, success |-> TRUE, transcription |-> result[r],
     diarization_enabled |->
         enable_diarization[r] /\ IsNotNone(diarize_pipeline),
     error |-> "none"]

\* an exception raised inside the inner try: control goes to its finally
Raise(r, stage) ==
    /\ err' = [err EXCEPT ![r] = stage]
    /\ pc' = [pc EXCEPT ![r] = "finally"]

\* request validation and option parsing; int() raises on a malformed
\* min_speakers / max_speakers and the outer except answers 500
Receive(r, kind, diar, intok) ==
    /\ pc[r] = "idle"
    /\ CanAccept
    /\ IF kind # "ok"
       THEN /\ resp' = [resp EXCEPT ![r] = ErrorResponse(400, kind)]
            /\ pc' = [pc EXCEPT ![r] = "done"]
            /\ UNCHANGED <<enable_diarization, err>>
       ELSE IF ~intok
       THEN /\ enable_diarization' = [enable_diarization EXCEPT ![r] = diar]
            /\ err' = [err EXCEPT ![r] = "params"]
            /\ resp' = [resp EXCEPT ![r] = ErrorResponse(500, "params")]
            /\ pc' = [pc EXCEPT ![r] = "done"]
       ELSE /\ enable_diarization' = [enable_diarization EXCEPT ![r] = diar]
            /\ pc' = [pc EXCEPT ![r] = "save"]
            /\ UNCHANGED <<resp, err>>
    /\ UNCHANGED <<startup, handles, result, log, tmp, probes>>

\* NamedTemporaryFile(delete=False) creates the file, file.save writes it;
\* a failing save raises before the inner try is entered
SaveUpload(r, ok) ==
    /\ pc[r] = "save"
    /\ tmp' = [tmp EXCEPT ![r] = TRUE]
    /\ IF ok
       THEN /\ pc' = [pc EXCEPT ![r] = "load_audio"]
            /\ UNCHANGED <<err, resp>>
       ELSE /\ err' = [err EXCEPT ![r] = "save"]
            /\ resp' = [resp EXCEPT ![r] = ErrorResponse(500, "save")]
            /\ pc' = [pc EXCEPT ![r] = "done"]
    /\ UNCHANGED <<startup, handles, enable_diarization, result, log, probes>>

LoadAudio(r, ok) ==
    /\ pc[r] = "load_audio"
    /\ log' = [log EXCEPT ![r] = Append(@, "load_audio")]
    /\ IF ok
       THEN /\ pc' = [pc EXCEPT ![r] = "transcribe"]
            /\ UNCHANGED err
       ELSE Raise(r, "load_audio")
    /\ UNCHANGED <<startup, handles, enable_diarization, result, resp, tmp,
                   probes>>

\* result = whisperx_model.transcribe(...); raises on a None handle
Transcribe_swallow(r, ok, s) ==
    /\ pc[r] = "transcribe"
    /\ log' = [log EXCEPT ![r] = Append(@, "transcribe")]
    /\ IF ok /\ IsNotNone(whisperx_model)
       THEN /\ result' = [result EXCEPT ![r] =
                   [segments |-> s, aligned |-> FALSE, speakers |-> FALSE]]
            /\ pc' = [pc EXCEPT ![r] = "align"]
            /\ UNCHANGED err
       ELSE /\ err' = [err EXCEPT ![r] = "transcribe"]
            /\ pc' = [pc EXCEPT ![r] = "align"]
            /\ UNCHANGED result
    /\ UNCHANGED <<startup, handles, enable_diarization, resp, tmp, probes>>

Transcribe(r, ok, s) ==
    /\ pc[r] = "transcribe"
    /\ log' = [log EXCEPT ![r] = Append(@, "transcribe")]
    /\ IF ok /\ IsNotNone(whisperx_model)
       THEN /\ result' = [result EXCEPT ![r] =
                   [segments |-> s, aligned |-> FALSE, speakers |-> FALSE]]
            /\ pc' = [pc EXCEPT ![r] = "align"]
            /\ UNCHANGED err
       ELSE /\ Raise(r, "transcribe")
            /\ UNCHANGED result
    /\ UNCHANGED <<startup, handles, enable_diarization, resp, tmp, probes>>

\* if align_model: result = whisperx.align(result["segments"], ...)
Align_unload(r, ok) ==
    /\ pc[r] = "align"
    /\ IF Truthy(align_model)
       THEN /\ log' = [log EXCEPT ![r] = Append(@, "align")]
            /\ IF ok
               THEN /\ result' = [result EXCEPT ![r].aligned = TRUE]
                    /\ pc' = [pc EXCEPT ![r] = "diarize"]
                    /\ UNCHANGED <<err, align_model, align_metadata>>
               ELSE /\ Raise(r, "align")
                    /\ align_model' = "None"
                    /\ align_metadata' = "None"
                    /\ UNCHANGED result
       ELSE /\ ok
            /\ pc' = [pc EXCEPT ![r] = "diarize"]
            /\ UNCHANGED <<log, result, err, align_model, align_metadata>>
    /\ UNCHANGED <<startup, whisperx_model, diarize_pipeline,
                   enable_diarization, resp, tmp, probes>>

Align(r, ok) ==
    /\ pc[r] = "align"
    /\ IF Truthy(align_model)
       THEN /\ log' = [log EXCEPT ![r] = Append(@, "align")]
            /\ IF ok
               THEN /\ result' = [result EXCEPT ![r].aligned = TRUE]
                    /\ pc' = [pc EXCEPT ![r] = "diarize"]
                    /\ UNCHANGED err
               ELSE /\ Raise(r, "align")
                    /\ UNCHANGED result
       ELSE /\ ok
            /\ pc' = [pc EXCEPT ![r] = "diarize"]
            /\ UNCHANGED <<log, result, err>>
    /\ UNCHANGED <<startup, handles, enable_diarization, resp, tmp, probes>>

\* if enable_diarization and diarize_pipeline: whisperx.diarize(...)
Diarize_always(r, ok) ==
    /\ pc[r] = "diarize"
    /\ log' = [log EXCEPT ![r] = Append(@, "diarize")]
    /\ IF ok
       THEN /\ pc' = [pc EXCEPT ![r] = "assign"]
            /\ UNCHANGED err
       ELSE Raise(r, "diarize")
    /\ UNCHANGED <<startup, handles, enable_diarization, result, resp, tmp,
                   probes>>

Diarize(r, ok) ==
    /\ pc[r] = "diarize"
    /\ IF enable_diarization[r] /\ Truthy(diarize_pipeline)
       THEN /\ log' = [log EXCEPT ![r] = Append(@, "diarize")]
            /\ IF ok
               THEN /\ pc' = [pc EXCEPT ![r] = "assign"]
                    /\ UNCHANGED err
               ELSE Raise(r, "diarize")
       ELSE /\ ok
            /\ pc' = [pc EXCEPT ![r] = "reclaim"]
            /\ UNCHANGED <<log, err>>
    /\ UNCHANGED <<startup, handles, enable_diarization, result, resp, tmp,
                   probes>>

\* result = whisperx.assign_word_speakers(diarize_segments, result)
AssignWordSpeakers(r, ok) ==
    /\ pc[r] = "assign"
    /\ log' = [log EXCEPT ![r] = Append(@, "assign_word_speakers")]
    /\ IF ok
       THEN /\ result' = [result EXCEPT ![r].speakers = TRUE]
            /\ pc' = [pc EXCEPT ![r] = "reclaim"]
            /\ UNCHANGED err
       ELSE /\ Raise(r, "assign_word_speakers")
            /\ UNCHANGED result
    /\ UNCHANGED <<startup, handles, enable_diarization, resp, tmp, probes>>

\* gc.collect(); torch.cuda.empty_cache(); return jsonify({...})
Reclaim(r) ==
    /\ pc[r] = "reclaim"
    /\ log' = [log EXCEPT ![r] = Append(@, "reclaim")]
    /\ resp' = [resp EXCEPT ![r] = SuccessResponse(r)]
    /\ pc' = [pc EXCEPT ![r] = "finally"]
    /\ UNCHANGED <<startup, handles, enable_diarization, result, err, tmp,
                   probes>>

\* finally: unlink the temporary file; then either the built response is
\* returned or the outer except turns the exception into a 500
Finally(r) ==
    /\ pc[r] = "finally"
    /\ tmp' = [tmp EXCEPT ![r] = FALSE]
    /\ resp' = [resp EXCEPT ![r] =
                   IF err[r] = "none" THEN @ ELSE ErrorResponse(500, err[r])]
    /\ pc' = [pc EXCEPT ![r] = "done"]
    /\ UNCHANGED <<startup, handles, enable_diarization, result, log, err,
                   probes>>

\* the client has read the response; the slot serves the next request
Complete(r) ==
    /\ pc[r] = "done"
    /\ pc' = [pc EXCEPT ![r] = "idle"]
    /\ enable_diarization' = [enable_diarization EXCEPT ![r] = FALSE]
    /\ result' = [result EXCEPT ![r] = NoResult]
    /\ log' = [log EXCEPT ![r] = << >>]
    /\ err' = [err EXCEPT ![r] = "none"]
    /\ resp' = [resp EXCEPT ![r] = NoResp]
    /\ tmp' = [tmp EXCEPT ![r] = FALSE]
    /\ UNCHANGED <<startup, handles, probes>>

\* ------------------------------------------- GET /health, /models/info
health_check_stale ==
    [served |-> TRUE,
     whisperx_loaded |-> IsNotNone(whisperx_model),
     align_loaded |-> IsNotNone(align_model),
     diarize_loaded |-> IsNotNone(align_model)]

health_check ==
    [served |-> TRUE,
     whisperx_loaded |-> IsNotNone(whisperx_model),
     align_loaded |-> IsNotNone(align_model),
     diarize_loaded |-> IsNotNone(diarize_pipeline)]

models_info ==
    [served |-> TRUE,
     whisperx_model |-> IF Truthy(whisperx_model) THEN "large-v2" ELSE "None",
     align_model_loaded |-> IsNotNone(align_model),
     diarization_available |-> IsNotNone(diarize_pipeline)]

Health ==
    /\ CanAccept
    /\ health_resp' = health_check
    /\ UNCHANGED <<startup, handles, reqvars, info_resp>>

ModelsInfo ==
    /\ CanAccept
    /\ info_resp' = models_info
    /\ UNCHANGED <<startup, handles, reqvars, health_resp>>

\* ------------------------------------------------------- specification
Next ==
    \/ \E m \in Modes : Start(m)
    \/ \E ok \in BOOLEAN : LoadWhisperx(ok)
    \/ \E ok \in BOOLEAN : LoadAlign(ok)
    \/ \E ok \in BOOLEAN : LoadDiarize(ok)
    \/ \E r \in Reqs, kind \in {"ok", "nofile", "emptyname", "badext"},
          diar \in BOOLEAN, intok \in BOOLEAN : Receive(r, kind, diar, intok)
    \/ \E r \in Reqs, ok \in BOOLEAN : SaveUpload(r, ok)
    \/ \E r \in Reqs, ok \in BOOLEAN : LoadAudio(r, ok)
    \/ \E r \in Reqs, ok \in BOOLEAN, s \in Segs : Transcribe(r, ok, s)
    \/ \E r \in Reqs, ok \in BOOLEAN : Align(r, ok)
    \/ \E r \in Reqs, ok \in BOOLEAN : Diarize(r, ok)
    \/ \E r \in Reqs, ok \in BOOLEAN : AssignWordSpeakers(r, ok)
    \/ \E r \in Reqs : Reclaim(r)
    \/ \E r \in Reqs : Finally(r)
    \/ \E r \in Reqs : Complete(r)
    \/ Health
    \/ ModelsInfo

Spec == Init /\ [][Next]_vars

\* ------------------------------------------------------------ properties
Has(seq, x) == \E i \in 1..Len(seq) : seq[i] = x

\* a pipeline run: transcribe has been called, reclaim has not completed
InRun(r) == pc[r] \in {"align", "diarize", "assign", "reclaim"}
InFlight == Cardinality({r \in Reqs : InRun(r)})

\* the response of request r has reached the caller
Answered(r) == pc[r] = "done"

\* C1: under any interleaving of POST /transcribe requests and for every
\* way of starting the service, the number of pipeline runs in flight
\* never exceeds 1.
C1_AtMostOneRun == InFlight <= 1

\* C2: every answered request whose pipeline run started (audio loading was
\* reached) went through the memory-reclaim step and is no longer holding
\* the accelerator, whatever the exit path.
C2_ReclaimOnEveryExit ==
    \A r \in Reqs :
        (Answered(r) /\ Has(log[r], "load_audio"))
            => (Has(log[r], "reclaim") /\ ~InRun(r))

\* C3: a request whose alignment stage failed after a successful
\* transcription is answered with success and the un-aligned segments of
\* the transcription stage.
C3_AlignFailureFallsBack ==
    \A r \in Reqs :
        (Answered(r) /\ err[r] = "align")
            => /\ resp[r].status = 200
               /\ resp[r].success
               /\ resp[r].transcription.segments \in Segs
               /\ ~resp[r].transcription.aligned

\* C4: a request whose diarization stage failed is answered with success,
\* a transcript without speaker labels and the diarization flag false.
C4_DiarizeFailureFallsBack ==
    \A r \in Reqs :
        (Answered(r) /\ err[r] = "diarize")
            => /\ resp[r].status = 200
               /\ resp[r].transcription.segments \in Segs
               /\ ~resp[r].transcription.speakers
               /\ ~resp[r].diarization_enabled

\* C5: a success response for "diarization not requested" and one for
\* "diarization requested, no diarization model loaded" never carry the
\* same diarization indicator; in the second case the segments are those
\* of the alignment stage.
C5_OutcomesDistinguished ==
    \A r1, r2 \in Reqs :
        ( /\ Answered(r1) /\ resp[r1].status = 200
          /\ Answered(r2) /\ resp[r2].status = 200
          /\ ~enable_diarization[r1]
          /\ enable_diarization[r2] /\ diarize_pipeline = "None" )
            => /\ resp[r1].diarization_enabled # resp[r2].diarization_enabled
               /\ resp[r2].transcription = result[r2]
               /\ ~resp[r2].transcription.speakers

\* C6: when the transcription stage fails, neither alignment nor
\* diarization nor fusion is invoked, no result is produced, the run is no
\* longer in flight, and the answer is the 500 response carrying the
\* transcription error.
C6_TranscribeFailureFatal ==
    \A r \in Reqs :
        err[r] = "transcribe"
            => /\ pc[r] \in {"finally", "done"}
               /\ ~InRun(r)
               /\ ~Has(log[r], "align")
               /\ ~Has(log[r], "diarize")
               /\ ~Has(log[r], "assign_word_speakers")
               /\ result[r] = NoResult
               /\ (Answered(r) =>
                     /\ resp[r] = ErrorResponse(500, "transcribe")
                     /\ r \notin Busy)

C6_Witness ==
    \E r \in Reqs :
        /\ err[r] = "transcribe"
        /\ Answered(r)
        /\ resp[r].status = 500
        /\ log[r] = <<"load_audio", "transcribe">>

\* C7: load_models fails exactly when loading the transcription model
\* fails.
C7_StartupFailsIffTranscriptionFails ==
    (lm_pc = "raised") <=> (load_failed = "whisperx")

\* C8: whatever GET /health and GET /models/info have reported for a
\* capability is true exactly when the corresponding handle is loaded.
C8_ReadinessMatchesHandles ==
    /\ health_resp.served =>
          /\ health_resp.whisperx_loaded <=> (whisperx_model # "None")
          /\ health_resp.align_loaded <=> (align_model # "None")
          /\ health_resp.diarize_loaded <=> (diarize_pipeline # "None")
    /\ info_resp.served =>
          /\ (info_resp.whisperx_model # "None") <=> (whisperx_model # "None")
          /\ info_resp.align_model_loaded <=> (align_model # "None")
          /\ info_resp.diarization_available <=> (diarize_pipeline # "None")

C8_Witness ==
    /\ health_resp.served
    /\ info_resp.served
    /\ health_resp.align_loaded
    /\ ~health_resp.diarize_loaded
    /\ ~info_resp.diarization_available

\* C9: once load_models has returned, no step of any request changes a
\* model handle or the readiness derived from it.
C9_HandlesReadOnly ==
    [][lm_pc = "done" =>
          /\ handles' = handles
          /\ health_check' = health_check
          /\ models_info' = models_info]_vars

C9_Witness ==
    /\ lm_pc = "done"
    /\ health_resp.served
    /\ \E r1, r2 \in Reqs :
          /\ Answered(r1) /\ resp[r1].status = 200
          /\ Answered(r2) /\ resp[r2].status = 500 /\ err[r2] = "align"

\* the engine calls of one request in their source order
StageOrder == <<"load_audio", "transcribe", "align", "diarize",
                "assign_word_speakers", "reclaim">>
StagePos(x) == CHOOSE i \in 1..Len(StageOrder) : StageOrder[i] = x

\* C11: within one request the stages are called in the fixed order
\* transcribe, align, diarize, fusion, reclaim, each at most once; align
\* only after a successful transcribe and with the alignment model loaded;
\* diarize only when requested and with the diarization model loaded;
\* fusion only after diarize returned; reclaim after all stages; a result
\* is returned only after reclaim.
C11_StageOrder ==
    \A r \in Reqs :
        /\ \A i, j \in 1..Len(log[r]) :
              i < j => StagePos(log[r][i]) < StagePos(log[r][j])
        /\ Has(log[r], "align") =>
              /\ Has(log[r], "transcribe")
              /\ err[r] # "transcribe"
              /\ result[r].segments \in Segs
              /\ align_model # "None"
        /\ Has(log[r], "diarize") =>
              /\ Has(log[r], "transcribe")
              /\ result[r].segments \in Segs
              /\ enable_diarization[r]
              /\ diarize_pipeline # "None"
        /\ Has(log[r], "assign_word_speakers") =>
              /\ Has(log[r], "diarize")
              /\ err[r] # "diarize"
        /\ Has(log[r], "reclaim") =>
              /\ err[r] = "none"
              /\ result[r].segments \in Segs
              /\ Has(log[r], "assign_word_speakers") = Has(log[r], "diarize")
        /\ resp[r].status = 200 => Has(log[r], "reclaim")

C11_Witness ==
    \E r1, r2 \in Reqs :
        /\ Answered(r1) /\ resp[r1].status = 200 /\ log[r1] = StageOrder
        /\ Answered(r2) /\ resp[r2].status = 200
        /\ log[r2] = <<"load_audio", "transcribe", "align", "reclaim">>

\* C13: once a request is answered, the temporary file created for its
\* upload no longer exists, on every exit path after the file's creation.
C13_NoTempFileLeft ==
    \A r \in Reqs : Answered(r) => ~tmp[r]

\* C14: in every success response the diarization_enabled flag is true
\* exactly when the diarization stage and the speaker fusion were run and
\* completed for that request.
C14_FlagMatchesRun ==
    \A r \in Reqs :
        resp[r].status = 200 =>
            (resp[r].diarization_enabled <=>
                /\ Has(log[r], "diarize")
                /\ Has(log[r], "assign_word_speakers")
                /\ resp[r].transcription.speakers)

C14_Witness ==
    \E r \in Reqs :
        /\ Answered(r)
        /\ resp[r].status = 200
        /\ resp[r].diarization_enabled
        /\ Has(log[r], "assign_word_speakers")
        /\ resp[r].transcription.speakers

====
